---- MODULE Spec2Model ----
(***************************************************************************)
(* Model of the two puzzle solvers of the repository.                      *)
(*                                                                         *)
(*   src/day4/solution.js  part1Solution: word search over rows, columns   *)
(*                         and both diagonal families of a character grid; *)
(*                         part2Solution: 3x3 window template matcher.     *)
(*   src/day5/solution.js  part1Solution: ordering test of page updates;   *)
(*                         part2Solution: comparator sort of the rejected  *)
(*                         updates.                                        *)
(*                                                                         *)
(* A JavaScript string is a sequence of one-character strings, an array a  *)
(* sequence.  Indices named x, y, i are 0-based as in the source; the      *)
(* model adds 1 where it reads a sequence.                                 *)
(***************************************************************************)
EXTENDS Integers, Sequences, FiniteSets, TLC

VARIABLES input, rawRules, rawOrders, line, called, lines, result

vars == <<input, rawRules, rawOrders, line, called, lines, result>>

(***************************************************************************)
(* Bounds of the inputs.                                                   *)
(***************************************************************************)
\* Largest side of a square grid.
MaxN == 4
\* Largest number of rows / columns of a rectangular grid.
MaxDim == 3
\* Longest Line handed to the pattern counter on its own.
MaxLineLen == 7
\* Number of distinct pages, and number of updates, of a day 5 input.
MaxPage == 3
MaxOrders == 2
\* Smallest page number: pages FirstPage .. FirstPage + MaxPage - 1 mix one
\* and two digit numbers.
FirstPage == 8

NL == "\n"
CR == "\r"
\* The line terminators of JavaScript; the two outside ASCII are named by
\* their code points.
LineTerminators == {NL, CR, "U+2028", "U+2029"}
Alphabet == {"X", "M", "A", "S"}

\* The value JavaScript gives for an index outside a string or array.
Undefined == <<"undefined">>

(***************************************************************************)
(* JavaScript and lodash primitives used by the sources.                   *)
(***************************************************************************)
Abs(n) == IF n < 0 THEN -n ELSE n

Min(a, b) == IF a < b THEN a ELSE b

Reverse(s) == [k \in 1..Len(s) |-> s[Len(s) + 1 - k]]

RECURSIVE Sum(_)
Sum(s) == IF s = <<>> THEN 0 ELSE Head(s) + Sum(Tail(s))

RECURSIVE Flatten(_)
Flatten(ss) == IF ss = <<>> THEN <<>> ELSE Head(ss) \o Flatten(Tail(ss))

\* String.prototype.split(sep) for a one-character separator: the pieces
\* between consecutive separators, empty pieces kept.
Split(s, sep) ==
    LET seps   == {k \in 1..Len(s) : s[k] = sep}
        nth(j) == IF j = 0 THEN 0
                  ELSE IF j > Cardinality(seps) THEN Len(s) + 1
                  ELSE CHOOSE p \in seps : Cardinality({q \in seps : q < p}) = j - 1
    IN  [j \in 1..(Cardinality(seps) + 1) |-> SubSeq(s, nth(j - 1) + 1, nth(j) - 1)]

\* Array.prototype.join(sep): undefined elements join as the empty string.
RECURSIVE Join(_, _)
Join(parts, sep) ==
    IF parts = <<>> THEN <<>>
    ELSE LET h == IF Head(parts) = Undefined THEN <<>> ELSE Head(parts)
         IN  IF Len(parts) = 1 THEN h
             ELSE h \o sep \o Join(Tail(parts), sep)

\* s[y] of a string: the one-character string at 0-based y, or undefined.
\* (Undefined is a sequence, like every string of the model, holding a word
\* no one-character string equals.)
CharAt(s, y) == IF y >= 0 /\ y < Len(s) THEN <<s[y + 1]>> ELSE Undefined

\* String.prototype.slice(from, to) for 0 <= from <= to.
Slice(s, from, to) == SubSeq(s, from + 1, Min(to, Len(s)))

\* _.range(end): 0, 1, .., end-1; for a negative end 0, -1, .., end+1.
Range(end) == [k \in 1..Abs(end) |-> IF end < 0 THEN -(k - 1) ELSE k - 1]

\* _.rangeRight(end): _.range(end) backwards.
RangeRight(end) == Reverse(Range(end))

\* _.zip(a, b) of two arrays.
Zip(a, b) ==
    [k \in 1..(IF Len(a) > Len(b) THEN Len(a) ELSE Len(b)) |->
        <<IF k <= Len(a) THEN a[k] ELSE Undefined,
          IF k <= Len(b) THEN b[k] ELSE Undefined>>]

RECURSIVE MaxLen(_)
MaxLen(ss) ==
    IF ss = <<>> THEN 0
    ELSE LET m == MaxLen(Tail(ss))
         IN  IF Len(Head(ss)) > m THEN Len(Head(ss)) ELSE m

\* _.zip(...arrays): element j groups the j-th element of every array.
ZipAll(arrays) ==
    [j \in 1..MaxLen(arrays) |->
        [k \in 1..Len(arrays) |-> CharAt(arrays[k], j - 1)]]

(***************************************************************************)
(* Regular expressions: a pattern is a sequence of one-character strings,  *)
(* "." matching any character but a line terminator.                       *)
(***************************************************************************)
RegexMatchAt(str, re, at) ==
    /\ at + Len(re) - 1 <= Len(str)
    /\ \A k \in 1..Len(re) :
          IF re[k] = "." THEN str[at + k - 1] \notin LineTerminators
          ELSE str[at + k - 1] = re[k]

\* str.match(re) without the g flag: truthy iff the pattern occurs somewhere.
RegexTest(str, re) == \E at \in 1..Len(str) : RegexMatchAt(str, re, at)

\* str.match(re) with the g flag: the matches found scanning left to right,
\* each scan resuming at the end of the previous match (|| [] for null).
RECURSIVE MatchAllFrom(_, _, _)
MatchAllFrom(str, re, at) ==
    IF at + Len(re) - 1 > Len(str) THEN <<>>
    ELSE IF RegexMatchAt(str, re, at)
         THEN <<SubSeq(str, at, at + Len(re) - 1)>>
                 \o MatchAllFrom(str, re, at + Len(re))
         ELSE MatchAllFrom(str, re, at + 1)

MatchAll(str, re) == MatchAllFrom(str, re, 1)

(***************************************************************************)
(* day4 part1Solution                                                      *)
(***************************************************************************)
XMAS == <<"X", "M", "A", "S">>
SAMX == <<"S", "A", "M", "X">>

\* One scan for either word, as /XMAS|SAMX/g would make it.
RECURSIVE EitherFrom(_, _)
EitherFrom(str, at) ==
    IF at + 3 > Len(str) THEN 0
    ELSE IF RegexMatchAt(str, XMAS, at) \/ RegexMatchAt(str, SAMX, at)
         THEN 1 + EitherFrom(str, at + 4)
         ELSE EitherFrom(str, at + 1)

LineCountOneScan(l) == EitherFrom(l, 1)

LineCountOnlyForward(l) == Len(MatchAll(l, XMAS))

\* line 31: what one Line adds to count.
LineCount(l) == Len(MatchAll(l, XMAS) \o MatchAll(l, SAMX))

\* line 16
Text(in) == Split(in, NL)

\* line 17
Transposed(text) ==
    LET cols == ZipAll(text)
    IN  [j \in 1..Len(cols) |-> Join(cols[j], <<>>)]

\* lines 18 and 24: the number of diagonals of each family.
DiagCountEven(text) == Len(text) * 2

DiagCount(text) == Len(text) * 2 - 1

\* lines 19-20 and 25-26: the (x, y) pairs of diagonal i that pass the filter.
DiagPairs(text, i) ==
    SelectSeq(Zip(Range(i + 1), RangeRight(i + 1)),
              LAMBDA p : /\ p[1] >= 0 /\ p[1] < Len(text)
                         /\ p[2] >= 0 /\ p[2] < Len(text))

\* line 27: the row read for x in the mirrored family.
MirrorRowSame(text, x) == x

MirrorRow(text, x) == Len(text) - x - 1

\* lines 18-23
Diag1(text) ==
    [k \in 1..DiagCount(text) |->
        LET ps == DiagPairs(text, k - 1)
        IN  Join([q \in 1..Len(ps) |-> CharAt(text[ps[q][1] + 1], ps[q][2])],
                 <<>>)]

\* lines 24-29
Diag2(text) ==
    [k \in 1..DiagCount(text) |->
        LET ps == DiagPairs(text, k - 1)
        IN  Join([q \in 1..Len(ps) |->
                     CharAt(text[MirrorRow(text, ps[q][1]) + 1], ps[q][2])],
                 <<>>)]

\* lines 16-29: the four families in the order line 30 visits them.
Families(in) ==
    LET text == Text(in)
    IN  <<text, Transposed(text), Diag1(text), Diag2(text)>>

\* lines 30-33
day4_part1Solution(in) ==
    LET all == Flatten(Families(in))
    IN  Sum([k \in 1..Len(all) |-> LineCount(all[k])])

(***************************************************************************)
(* day4 part2Solution                                                      *)
(***************************************************************************)
\* lines 41-46
permutations ==
    << <<"M", ".", "S", NL, ".", "A", ".", NL, "M", ".", "S">>,
       <<"M", ".", "M", NL, ".", "A", ".", NL, "S", ".", "S">>,
       <<"S", ".", "M", NL, ".", "A", ".", NL, "S", ".", "M">>,
       <<"S", ".", "S", NL, ".", "A", ".", NL, "M", ".", "M">> >>

\* line 50: text[x + i] is undefined outside the array and .slice then throws.
WindowThrows(text, x) == \E i \in 0..2 : x + i < 0 \/ x + i >= Len(text)

\* line 50: the 3x3 section as a newline separated string.
Window(text, x, y) ==
    Join([k \in 1..3 |-> Slice(text[x + k], y, y + 3)], <<NL>>)

\* line 51
WindowMatches(text, x, y) ==
    \E p \in 1..Len(permutations) : RegexTest(Window(text, x, y), permutations[p])

\* lines 48-49: the values x and y range over.
WindowRange(text) == Range(Len(text) - 2)

\* lines 39-55: the value returned, or the TypeError of line 50.
day4_part2Solution(in) ==
    LET text == Text(in)
        r    == WindowRange(text)
    IN  IF \E a \in 1..Len(r) : WindowThrows(text, r[a])
        THEN [threw |-> TRUE, value |-> 0]
        ELSE [threw |-> FALSE,
              value |-> Sum([a \in 1..Len(r) |->
                          Sum([b \in 1..Len(r) |->
                              IF WindowMatches(text, r[a], r[b]) THEN 1 ELSE 0])])]

(***************************************************************************)
(* day5: parsing of the rules and the updates                              *)
(***************************************************************************)
Digits == <<"0", "1", "2", "3", "4", "5", "6", "7", "8", "9">>

DigitValue(c) == (CHOOSE d \in 1..10 : Digits[d] = c) - 1

\* Number(s) of a string of decimal digits.
RECURSIVE Number(_)
Number(s) ==
    IF s = <<>> THEN 0
    ELSE Number(SubSeq(s, 1, Len(s) - 1)) * 10 + DigitValue(s[Len(s)])

\* x.split(sep).map(Number)
Numbers(s, sep) ==
    LET parts == Split(s, sep)
    IN  [k \in 1..Len(parts) |-> Number(parts[k])]

\* lines 34-35 and 53-54: the [page1, page2] pairs, in the order of the text.
RulePairs(raw) ==
    LET rows == Split(raw, NL)
    IN  [k \in 1..Len(rows) |-> Numbers(rows[k], "|")]

\* lines 36-38 and 55-57: the object mapping a page to the list of the pages
\* it must appear before, each list in the order of the text.
Rules(raw) ==
    LET pairs == RulePairs(raw)
        first(k) == pairs[k][1]
    IN  [p \in {first(k) : k \in 1..Len(pairs)} |->
            LET mine == SelectSeq(pairs, LAMBDA pr : pr[1] = p)
            IN  [k \in 1..Len(mine) |-> mine[k][2]]]

\* lines 40-41 and 59-60
Orders(raw) ==
    LET rows == Split(raw, NL)
    IN  [k \in 1..Len(rows) |-> Numbers(rows[k], ",")]

\* Array.prototype.includes
Includes(arr, v) == \E k \in 1..Len(arr) : arr[k] = v

\* rules[b] && rules[b].includes(a): the text holds the rule b|a.
MustPrecede(rules, b, a) == b \in DOMAIN rules /\ Includes(rules[b], a)

\* lines 42 and 61: the test of every page against the page that follows it.
OrderAccepted(rules, pages) ==
    \A i \in 0..(Len(pages) - 2) :
        ~MustPrecede(rules, pages[i + 2], pages[i + 1])

\* lines 43 and 63: pages[Math.floor(pages.length / 2)]
Middle(pages) == pages[(Len(pages) \div 2) + 1]

\* lines 31-45
day5_part1Solution(rRules, rOrders) ==
    LET rules == Rules(rRules)
        kept  == SelectSeq(Orders(rOrders), LAMBDA pages : OrderAccepted(rules, pages))
    IN  Sum([k \in 1..Len(kept) |-> Middle(kept[k])])

(***************************************************************************)
(* day5 part2Solution.  Array.prototype.sort is the engine's, and what it  *)
(* returns is fixed by the language only for a consistent comparator: one  *)
(* that orders the elements compared antisymmetrically and transitively.   *)
(* Then every engine returns the one arrangement the comparator accepts.   *)
(* For any other comparator the order is implementation-defined (engines   *)
(* differ: V8 before 7.0 runs an insertion sort, later V8 a binary         *)
(* insertion after run detection), so the sort may return any arrangement  *)
(* of the elements.                                                        *)
(***************************************************************************)
\* line 62: the comparator.
Compare(rules, a, b) == IF ~MustPrecede(rules, b, a) THEN 1 ELSE -1

\* The arrangements of the elements of pages.
Arrangements(pages) ==
    LET n == Len(pages)
    IN  {[k \in 1..n |-> pages[f[k]]] :
            f \in {g \in [1..n -> 1..n] : \A i, j \in 1..n : i # j => g[i] # g[j]}}

\* The comparator of line 62 is consistent on the elements of pages: of two
\* elements it puts exactly one first, and transitively so.
ConsistentOn(rules, pages) ==
    /\ \A i, j \in 1..Len(pages) :
          i # j => Compare(rules, pages[i], pages[j]) = -Compare(rules, pages[j], pages[i])
    /\ \A i, j, k \in 1..Len(pages) :
          (/\ i # j /\ j # k /\ i # k
           /\ Compare(rules, pages[i], pages[j]) < 0
           /\ Compare(rules, pages[j], pages[k]) < 0)
              => Compare(rules, pages[i], pages[k]) < 0

\* The comparator puts every element of p before the elements after it.
SortedBy(rules, p) ==
    \A i, j \in 1..Len(p) : i < j => Compare(rules, p[i], p[j]) < 0

\* line 62: what pages.sort(comparator) can leave in pages.
SortOutcomes(rules, pages) ==
    IF ConsistentOn(rules, pages)
    THEN {p \in Arrangements(pages) : SortedBy(rules, p)}
    ELSE Arrangements(pages)

\* lines 59-61: the updates the ordering test rejects.
Rejected(rRules, rOrders) ==
    SelectSeq(Orders(rOrders), LAMBDA pages : ~OrderAccepted(Rules(rRules), pages))

\* lines 59-62: the rejected updates, each sorted: every sequence the map of
\* line 62 can produce.
SortedRejected(rRules, rOrders) ==
    LET rules    == Rules(rRules)
        rejected == Rejected(rRules, rOrders)
        outcomes == UNION {SortOutcomes(rules, rejected[k]) : k \in 1..Len(rejected)}
    IN  {s \in [1..Len(rejected) -> outcomes] :
            \A k \in 1..Len(rejected) : s[k] \in SortOutcomes(rules, rejected[k])}

\* lines 63-64: the sum of the middle pages of the sorted arrays.
MiddleSum(sorted) == Sum([k \in 1..Len(sorted) |-> Middle(sorted[k])])

\* lines 50-65: the values part2Solution can return.
day5_part2Solution(rRules, rOrders) ==
    {MiddleSum(sorted) : sorted \in SortedRejected(rRules, rOrders)}

(***************************************************************************)
(* The inputs: grids as the text the solvers are handed, rows separated by *)
(* line breaks.                                                            *)
(***************************************************************************)
\* The first n characters of pat repeated.
Cyclic(pat, n) == [k \in 1..n |-> pat[((k - 1) % Len(pat)) + 1]]

\* The rows a grid of width n is built from: XMAS, SAMX, MS and SM repeated,
\* the four constant rows, and a row holding a carriage return.
RowChoices(n) ==
    {Cyclic(XMAS, n), Cyclic(SAMX, n), Cyclic(<<"M", "S">>, n), Cyclic(<<"S", "M">>, n),
     Cyclic(<<"X", "A", CR>>, n)}
        \cup {[k \in 1..n |-> c] : c \in Alphabet}

GridText(rows) == Join(rows, <<NL>>)

\* The texts of the grids of r rows and c columns.
GridInputs(r, c) == {GridText(rows) : rows \in [1..r -> RowChoices(c)]}

SquareInputs == UNION {GridInputs(n, n) : n \in 1..MaxN}

RectInputs == UNION {GridInputs(r, c) : r \in 1..MaxDim, c \in 1..MaxDim}

NoResult == [threw |-> FALSE, value |-> 0]

InitGrid ==
    /\ input \in SquareInputs
    /\ rawRules = <<>>
    /\ rawOrders = <<>>
    /\ line = <<>>
    /\ called = "start"
    /\ lines = <<>>
    /\ result = NoResult

InitRect ==
    /\ input \in RectInputs
    /\ rawRules = <<>>
    /\ rawOrders = <<>>
    /\ line = <<>>
    /\ called = "start"
    /\ lines = <<>>
    /\ result = NoResult

\* src/day4/solution.js line 36: console.log(part1Solution(example))
Part1 ==
    /\ called = "start"
    /\ called' = "part1"
    /\ lines' = Families(input)
    /\ result' = [threw |-> FALSE, value |-> day4_part1Solution(input)]
    /\ UNCHANGED <<input, rawRules, rawOrders, line>>

\* src/day4/solution.js line 57: console.log(part2Solution(example))
Part2 ==
    /\ called = "part1"
    /\ called' = "part2"
    /\ result' = day4_part2Solution(input)
    /\ UNCHANGED <<input, rawRules, rawOrders, line, lines>>

NextDay4 == Part1 \/ Part2

SpecGrid == InitGrid /\ [][NextDay4]_vars

SpecRect == InitRect /\ [][NextDay4]_vars

(***************************************************************************)
(* The pattern counter on one Line.                                        *)
(***************************************************************************)
LineInputs == UNION {[1..n -> Alphabet] : n \in 0..MaxLineLen}

InitLine ==
    /\ input = <<>>
    /\ rawRules = <<>>
    /\ rawOrders = <<>>
    /\ line \in LineInputs
    /\ called = "start"
    /\ lines = <<>>
    /\ result = NoResult

\* src/day4/solution.js lines 30-32: the callback run on one Line.
CountLine ==
    /\ called = "start"
    /\ called' = "line"
    /\ result' = [threw |-> FALSE, value |-> LineCount(line)]
    /\ UNCHANGED <<input, rawRules, rawOrders, line, lines>>

NextLine == CountLine

SpecLine == InitLine /\ [][NextLine]_vars

(***************************************************************************)
(* The day 5 inputs: acyclic rule sets over the pages, and updates of      *)
(* distinct pages, as the texts the solvers are handed.                    *)
(***************************************************************************)
Pages == FirstPage..(FirstPage + MaxPage - 1)

RECURSIVE NumberText(_)
NumberText(n) ==
    IF n < 10 THEN <<Digits[n + 1]>>
    ELSE NumberText(n \div 10) \o <<Digits[(n % 10) + 1]>>

\* Every ordered pair of distinct pages, in a fixed order.
PairList ==
    SelectSeq([k \in 1..(MaxPage * MaxPage) |->
                  <<FirstPage + ((k - 1) \div MaxPage), FirstPage + ((k - 1) % MaxPage)>>],
              LAMBDA pr : pr[1] # pr[2])

\* The pages reachable from the set from by at most n steps of the rules rs.
RECURSIVE Reach(_, _, _)
Reach(rs, from, n) ==
    IF n = 0 THEN from
    ELSE Reach(rs, from \cup {pr[2] : pr \in {q \in rs : q[1] \in from}}, n - 1)

Acyclic(rs) == \A pr \in rs : pr[1] \notin Reach(rs, {pr[2]}, MaxPage)

RuleSets == {rs \in SUBSET {PairList[k] : k \in 1..Len(PairList)} : rs # {} /\ Acyclic(rs)}

RulesText(rs) ==
    LET chosen == SelectSeq(PairList, LAMBDA pr : pr \in rs)
    IN  Join([k \in 1..Len(chosen) |->
                 NumberText(chosen[k][1]) \o <<"|">> \o NumberText(chosen[k][2])],
             <<NL>>)

Updates ==
    {u \in UNION {[1..n -> Pages] : n \in 1..MaxPage} :
        \A i, j \in 1..Len(u) : i # j => u[i] # u[j]}

OrdersText(us) ==
    Join([k \in 1..Len(us) |->
             Join([j \in 1..Len(us[k]) |-> NumberText(us[k][j])], <<",">>)],
         <<NL>>)

InitDay5 ==
    /\ input = <<>>
    /\ rawRules \in {RulesText(rs) : rs \in RuleSets}
    /\ rawOrders \in {OrdersText(us) : us \in UNION {[1..m -> Updates] : m \in 1..MaxOrders}}
    /\ line = <<>>
    /\ called = "start"
    /\ lines = <<>>
    /\ result = NoResult

\* src/day5/solution.js line 47: console.log(part1Solution(exampleRules, exampleOrders))
Day5Part1 ==
    /\ called = "start"
    /\ called' = "day5part1"
    /\ result' = [threw |-> FALSE, value |-> day5_part1Solution(rawRules, rawOrders)]
    /\ UNCHANGED <<input, rawRules, rawOrders, line, lines>>

\* src/day5/solution.js line 67: console.log(part2Solution(exampleRules, exampleOrders))
\* lines holds the arrays line 62 has sorted.
Day5Part2 ==
    /\ called = "day5part1"
    /\ called' = "day5part2"
    /\ lines' \in SortedRejected(rawRules, rawOrders)
    /\ result' = [threw |-> FALSE, value |-> MiddleSum(lines')]
    /\ result'.value \in day5_part2Solution(rawRules, rawOrders)
    /\ UNCHANGED <<input, rawRules, rawOrders, line>>

NextDay5 == Day5Part1 \/ Day5Part2

SpecDay5 == InitDay5 /\ [][NextDay5]_vars

(***************************************************************************)
(* Properties of day 4.  The grid is read off the input text directly: a   *)
(* text of equal rows has a line break after every GridCols characters.    *)
(***************************************************************************)
GridCols ==
    IF \E k \in 1..Len(input) : input[k] = NL
    THEN (CHOOSE k \in 1..Len(input) :
              input[k] = NL /\ \A j \in 1..(k - 1) : input[j] # NL) - 1
    ELSE Len(input)

GridRows == (Len(input) + 1) \div (GridCols + 1)

\* The character of row r, column c, both 0-based.
Cell(r, c) == input[r * (GridCols + 1) + c + 1]

InGrid(r, c) == r >= 0 /\ r < GridRows /\ c >= 0 /\ c < GridCols

Directions == {d \in {-1, 0, 1} \X {-1, 0, 1} : d # <<0, 0>>}

Spells(r, c, d) ==
    \A k \in 0..3 :
        /\ InGrid(r + k * d[1], c + k * d[2])
        /\ Cell(r + k * d[1], c + k * d[2]) = XMAS[k + 1]

Placements ==
    {pl \in (0..(GridRows - 1)) \X (0..(GridCols - 1)) \X Directions :
        Spells(pl[1], pl[2], pl[3])}

\* C1: on a square grid part1Solution returns the number of (start cell,
\* direction) pairs, direction among the 8 compass directions, whose 4 cells
\* lie inside the grid and spell XMAS.
C1_Part1CountsEveryPlacementOnce ==
    called = "part1" =>
        result = [threw |-> FALSE, value |-> Cardinality(Placements)]

\* A grid holding XMAS to the right, downwards and on the falling diagonal.
C1_Witness ==
    /\ called = "part1"
    /\ result.value >= 3
    /\ {<<0, 1>>, <<1, 0>>, <<1, 1>>} \subseteq {pl[3] : pl \in Placements}

\* The occurrences of pat in l: the start indices at which pat is read.
Occurrences(l, pat) ==
    {k \in 1..Len(l) :
        k + Len(pat) - 1 <= Len(l) /\ \A j \in 1..Len(pat) : l[k + j - 1] = pat[j]}

\* C2: what the pattern counter adds for a Line is the number of start
\* indices of XMAS plus the number of start indices of SAMX, occurrences that
\* overlap each counted.
C2_LineCountIsOccurrences ==
    called = "line" =>
        result.value = Cardinality(Occurrences(line, XMAS))
                         + Cardinality(Occurrences(line, SAMX))

\* The Line XMASAMX, whose two occurrences share the S, has added 2.
C2_Witness ==
    /\ called = "line"
    /\ line = <<"X", "M", "A", "S", "A", "M", "X">>
    /\ result.value = 2

Corners ==
    {<<"M", "S", "M", "S">>, <<"M", "M", "S", "S">>,
     <<"S", "M", "S", "M">>, <<"S", "S", "M", "M">>}

\* The window whose top-left corner is row x, column y is an X of two MAS:
\* corners in the order top-left, top-right, bottom-left, bottom-right.
XShaped(x, y) ==
    /\ Cell(x + 1, y + 1) = "A"
    /\ <<Cell(x, y), Cell(x, y + 2), Cell(x + 2, y), Cell(x + 2, y + 2)>> \in Corners

\* C3: on a square grid of side N >= 3 part2Solution returns the number of
\* window positions (x, y), 0 <= x, y <= N-3, whose centre is A and whose
\* corners are one of the four accepted corner tuples, whatever the four
\* edge-midpoint cells hold.
C3_Part2CountsWindows ==
    (called = "part2" /\ GridRows >= 3) =>
        result = [threw |-> FALSE,
                  value |-> Cardinality({w \in (0..(GridRows - 3)) \X (0..(GridCols - 3)) :
                                            XShaped(w[1], w[2])})]

\* C4: a square grid of side N gives N row Lines, N column Lines and 2N-1
\* Lines in each diagonal family; for N = 1 each family is the one Line
\* holding the grid's character.
C4_FamilySizes ==
    called = "part1" =>
        /\ Len(lines) = 4
        /\ Len(lines[1]) = GridRows
        /\ Len(lines[2]) = GridRows
        /\ Len(lines[3]) = 2 * GridRows - 1
        /\ Len(lines[4]) = 2 * GridRows - 1
        /\ GridRows = 1 => \A f \in 1..4 : lines[f] = << <<input[1]>> >>

C4_Witness ==
    /\ called = "part1"
    /\ GridRows = 3
    /\ Len(lines[3]) = 5
    /\ Len(lines[4]) = 5

\* C5: on a grid with fewer than 3 rows part2Solution completes and returns
\* 0, no window being examined.
C5_SmallGridReturnsZero ==
    (called = "part2" /\ GridRows < 3) => result = [threw |-> FALSE, value |-> 0]

\* The Lines a family must hold for every cell to lie on exactly one of them.
ExpectedRows == [r \in 1..GridRows |-> [c \in 1..GridCols |-> Cell(r - 1, c - 1)]]

ExpectedColumns == [c \in 1..GridCols |-> [r \in 1..GridRows |-> Cell(r - 1, c - 1)]]

\* The cells with x + y = s, by increasing x; with mirror the rows are read
\* bottom-up.
DiagonalOf(s, mirror) ==
    LET lo == IF s - GridCols + 1 > 0 THEN s - GridCols + 1 ELSE 0
        hi == IF s < GridRows - 1 THEN s ELSE GridRows - 1
    IN  [k \in 1..(hi - lo + 1) |->
            Cell(IF mirror THEN GridRows - 1 - (lo + k - 1) ELSE lo + k - 1,
                 s - (lo + k - 1))]

ExpectedDiagonals(mirror) ==
    [k \in 1..(GridRows + GridCols - 1) |-> DiagonalOf(k - 1, mirror)]

NonEmpty(ls) == SelectSeq(ls, LAMBDA l : l # <<>>)

\* C6: on a rectangular grid of R rows and C columns every cell lies on
\* exactly one row Line, one column Line and one Line of each diagonal
\* family, the Lines holding the cells in traversal order.
C6_FamiliesCoverRectangle ==
    called = "part1" =>
        /\ lines[1] = ExpectedRows
        /\ lines[2] = ExpectedColumns
        /\ NonEmpty(lines[3]) = ExpectedDiagonals(FALSE)
        /\ NonEmpty(lines[4]) = ExpectedDiagonals(TRUE)

\* C7: the occurrences of XMAS counted in a Line are as many as those of
\* SAMX counted in the reversed Line, and what the Line adds to count is
\* what the reversed Line adds.
C7_ReversalSymmetry ==
    called = "line" =>
        /\ Len(MatchAll(line, XMAS)) = Len(MatchAll(Reverse(line), SAMX))
        /\ result.value = LineCount(Reverse(line))

\* A Line that differs from its reverse and holds XMAS only forwards.
C7_Witness ==
    /\ called = "line"
    /\ line # Reverse(line)
    /\ Len(MatchAll(line, XMAS)) = 1
    /\ Len(MatchAll(line, SAMX)) = 0
    /\ result.value = 1

(***************************************************************************)
(* Properties of day 5.                                                    *)
(***************************************************************************)
\* The rules a|b of the text, as pairs.
RuleSet ==
    LET pairs == RulePairs(rawRules)
    IN  {<<pairs[k][1], pairs[k][2]>> : k \in 1..Len(pairs)}

\* Every rule whose pages both occur in u has its first page before its second.
InTopologicalOrder(u) ==
    \A i, j \in 1..Len(u) : <<u[i], u[j]>> \in RuleSet => i < j

\* The rules relate every pair of pages of u.
RelatesAll(u) ==
    \A i, j \in 1..Len(u) :
        i # j => (<<u[i], u[j]>> \in RuleSet \/ <<u[j], u[i]>> \in RuleSet)

\* The one order of the pages of u that satisfies rules relating them all.
UniqueOrder(u) ==
    LET ps == {u[k] : k \in 1..Len(u)}
    IN  [k \in 1..Len(u) |->
            CHOOSE p \in ps : Cardinality({q \in ps : <<q, p>> \in RuleSet}) = k - 1]

\* C8: part1Solution returns the sum of the middle pages of exactly the
\* updates in which every rule a|b with both pages present, adjacent or not,
\* has a before b.
C8_Part1SumsTopologicalUpdates ==
    called = "day5part1" =>
        LET os == Orders(rawOrders)
        IN  result.value = Sum([k \in 1..Len(os) |->
                                   IF InTopologicalOrder(os[k]) THEN Middle(os[k]) ELSE 0])

\* C9: the sort leaves every re-ordered update, whose pages the rules all
\* relate, in topological order.
C9_SortGivesTopologicalOrder ==
    called = "day5part2" =>
        \A k \in 1..Len(lines) : RelatesAll(lines[k]) => InTopologicalOrder(lines[k])

\* C10: with rules relating every pair of pages of each update,
\* part2Solution returns the sum, over the updates part1Solution's test
\* rejects, of the page at index floor(length/2) of the update's unique
\* rule-satisfying order.
C10_Part2SumsMiddleOfUniqueOrder ==
    LET os == Orders(rawOrders)
    IN  (called = "day5part2" /\ \A k \in 1..Len(os) : RelatesAll(os[k])) =>
            result.value = Sum([k \in 1..Len(os) |->
                                   IF OrderAccepted(Rules(rawRules), os[k]) THEN 0
                                   ELSE Middle(UniqueOrder(os[k]))])

====
